---- MODULE Spec2Model ----
(***************************************************************************)
(* BSEC-Conduit, bseclib.py: the BSECLibrary supervisor.                   *)
(*                                                                         *)
(* Two specifications share the variables below. A call of the consumer    *)
(* is one step; the supervisor is single-threaded, so while a readline()   *)
(* is pending (blocked # 0) only the children move.                        *)
(*   SpecBuild  construction (BSECLibrary.__init__) against a working      *)
(*              directory and a host: parameter validation, source-tree    *)
(*              lookup, _get_exec (with arch), _get_config, _get_state.    *)
(*   Spec       one constructed session: open(), close(), output() and the *)
(*              child processes on the other end of the pipe.              *)
(*                                                                         *)
(* Numbers: temp_offset and voltage are floats in the source; the model    *)
(* keeps them in tenths (3.3 is 33, -10.0 is -100).                        *)
(***************************************************************************)
EXTENDS Integers, Sequences, FiniteSets, TLC

VARIABLES
    host,       \* the platform and the directories: fixed during a behaviour
    disk,       \* the files of base_dir and the glue source of src_dir
    self,       \* the BSECLibrary object: its fields, proc included
    children,   \* every child process spawned so far, by id 1..Len(children)
    gens,       \* the generator objects returned by output()
    blocked,    \* the generator whose readline() is pending, or 0
    last        \* what the most recent call did (history)

vars == <<host, disk, self, children, gens, blocked, last>>

None == 0
Absent == "absent"

\* The .md5 file beside the executable, read in text mode.
NoSidecar == [exists |-> FALSE, text |-> <<>>]
Sidecar(text) == [exists |-> TRUE, text |-> text]

(***************************************************************************)
(* Strings whose characters the code inspects are sequences of characters. *)
(***************************************************************************)
Contains(sub, s) ==
    \E i \in 0..(Len(s) - Len(sub)) : SubSeq(s, i + 1, i + Len(sub)) = sub

\* s[1:]
DropFirst(s) == IF s = <<>> THEN <<>> ELSE Tail(s)

RECURSIVE HexValue(_)
\* int(s, 16) of a non-empty sequence of hex digits (each 0..15)
HexValue(ds) ==
    IF ds = <<>> THEN 0
    ELSE HexValue(SubSeq(ds, 1, Len(ds) - 1)) * 16 + ds[Len(ds)]

Pow2(n) == 2 ^ n

\* md5(bytes).hexdigest(): the hashes of the eight vendor configuration blobs
\* of the BSEC release the table was written for are the table's keys; any
\* other content hashes to a value of its own (no collisions).
HashOfVendorBlob(ident) ==
    CASE ident = "generic_18v_300s_28d" -> "305c5398b0359f7956584a7a52bb48ea"
      [] ident = "generic_18v_300s_4d"  -> "eecd6e4000afa21901bb28e182a75c6e"
      [] ident = "generic_18v_3s_28d"   -> "19389190311bbdbf3432791eb9a258b7"
      [] ident = "generic_18v_3s_4d"    -> "0505f6120e216f19987b59dc011fc609"
      [] ident = "generic_33v_300s_28d" -> "344ff63b9f11c0427d7d205242ffd606"
      [] ident = "generic_33v_300s_4d"  -> "16851fcb6becb9b814263deb3d31623b"
      [] ident = "generic_33v_3s_28d"   -> "a401d7712179350a7b6ff6fc035d49c2"
      [] ident = "generic_33v_3s_4d"    -> "1107f7ce9fcb414de64e899babc1a1ee"

KnownIdents ==
    {"generic_18v_300s_28d", "generic_18v_300s_4d", "generic_18v_3s_28d",
     "generic_18v_3s_4d", "generic_33v_300s_28d", "generic_33v_300s_4d",
     "generic_33v_3s_28d", "generic_33v_3s_4d"}

\* The bytes of <src_dir>/config/<ident>/bsec_iaq.config
VendorBlob(ident) == "blob:" \o ident

md5(bytes) ==
    IF \E c \in KnownIdents : bytes = VendorBlob(c)
    THEN HashOfVendorBlob(CHOOSE c \in KnownIdents : bytes = VendorBlob(c))
    ELSE "md5:" \o bytes

\* config_hash_table[hash]['string'], for the eight keys of the table
config_hash_table ==
    [h \in {HashOfVendorBlob(c) : c \in KnownIdents} |->
        CHOOSE c \in KnownIdents : HashOfVendorBlob(c) = h]

\* The text of a file read in text mode: a sequence of tokens; "\n" and " "
\* are the whitespace tokens str.strip() removes from both ends.
IsSpace(t) == t \in {"\n", " "}

RECURSIVE strip(_)
strip(text) ==
    IF text = <<>> THEN <<>>
    ELSE IF IsSpace(Head(text)) THEN strip(Tail(text))
    ELSE IF IsSpace(text[Len(text)]) THEN strip(SubSeq(text, 1, Len(text) - 1))
    ELSE text

(***************************************************************************)
(* BSECLibrary.__init__: the checks of the instance variables.             *)
(***************************************************************************)
\* if 119 > i2c_address < 118      (a chained comparison: both must hold)
bad_i2c_address(i2c_address) == 119 > i2c_address /\ i2c_address < 118

\* if 10.0 > temp_offset < -10.0   (tenths)
bad_temp_offset(temp_offset) == 100 > temp_offset /\ temp_offset < -100

bad_sample_rate(sample_rate) == sample_rate # 3 /\ sample_rate # 300

\* Faulty variant of bad_voltage: 1.8 is forgotten.
bad_voltage_only_33(voltage) == voltage # 33

bad_voltage(voltage) == voltage # 33 /\ voltage # 18

bad_retain_state(retain_state) == retain_state # 4 /\ retain_state # 28

\* The first check that fails, in the order of the source, or "none".
InvalidParameter(a) ==
    IF bad_i2c_address(a.i2c_address) THEN "i2c_address"
    ELSE IF bad_temp_offset(a.temp_offset) THEN "temp_offset"
    ELSE IF bad_sample_rate(a.sample_rate) THEN "sample_rate"
    ELSE IF bad_voltage(a.voltage) THEN "voltage"
    ELSE IF bad_retain_state(a.retain_state) THEN "retain_state"
    ELSE "none"

\* Faulty variant of config_string: sample rate and retention change places.
config_string_swapped(obj) ==
    "generic_" \o ToString(obj.voltage) \o "v_"
        \o ToString(obj.retain_state) \o "s_" \o ToString(obj.sample_rate) \o "d"

\* str(x) of a float given in tenths, 0.0 .. 9.9: "3.3" is <<"3", ".", "3">>
StrFloat(tenths) == <<ToString(tenths \div 10), ".", ToString(tenths % 10)>>

\* 'generic_{}v_{}s_{}d'.format(str(voltage)[0]+str(voltage)[2], ...)
config_string(obj) ==
    "generic_" \o StrFloat(obj.voltage)[1] \o StrFloat(obj.voltage)[3] \o "v_"
        \o ToString(obj.sample_rate) \o "s_" \o ToString(obj.retain_state) \o "d"

\* {3: 'LP', 300: 'ULP'}[self.sample_rate]
sample_rate_string(obj) ==
    CASE obj.sample_rate = 3 -> "LP"
      [] obj.sample_rate = 300 -> "ULP"

(***************************************************************************)
(* _get_exec.arch: the library variant for this host.                      *)
(* A result is [kind, variant, log]: kind "ok", or the exception raised.   *)
(***************************************************************************)
PiThree_ArmV8 == "Normal_version/RaspberryPI/PiThree_ArmV8-a-64bits"
PiZero_ArmV6 == "Normal_version/RaspberryPI/PiZero_ArmV6-32bits"

\* The loop over /proc/cpuinfo: [exc, processor]. A host without the file or
\* without a Revision line leaves rpi_processor None.
rpi_processor(h) ==
    IF ~h.revision.has THEN [exc |-> "none", processor |-> "None"]
    ELSE LET digits == DropFirst(h.revision.digits)
         IN  IF digits = <<>>
             THEN [exc |-> "ValueError", processor |-> "None"]
             ELSE LET code == HexValue(digits)
                      cpu == (code \div Pow2(12)) % 16
                  IN  IF (code \div Pow2(23)) % 2 = 1
                      THEN IF cpu = 0 THEN [exc |-> "none", processor |-> "BCM2835"]
                           ELSE IF cpu = 1 THEN [exc |-> "none", processor |-> "BCM2836"]
                           ELSE IF cpu = 2 THEN [exc |-> "none", processor |-> "BCM2837"]
                           ELSE [exc |-> "KeyError", processor |-> "None"]
                      ELSE [exc |-> "none", processor |-> "BCM2835"]

arch(h) ==
    IF h.system # "Linux"
    THEN [kind |-> "BSECLibraryError", why |-> "os", variant |-> "", log |-> <<"error">>]
    ELSE IF ~Contains(<<"a", "r", "m">>, h.machine)
    THEN [kind |-> "BSECLibraryError", why |-> "cpu", variant |-> "", log |-> <<"error">>]
    ELSE LET r == rpi_processor(h)
         IN  IF r.exc # "none"
             THEN [kind |-> r.exc, why |-> "cpuinfo", variant |-> "", log |-> <<>>]
             ELSE IF r.processor # "None"
             THEN IF r.processor = "BCM2837"
                  THEN [kind |-> "ok", why |-> "revision", variant |-> PiThree_ArmV8, log |-> <<"info">>]
                  ELSE IF r.processor = "BCM2836"
                  THEN [kind |-> "ok", why |-> "revision", variant |-> PiZero_ArmV6, log |-> <<"info">>]
                  ELSE IF r.processor = "BCM2835"
                  THEN [kind |-> "ok", why |-> "revision", variant |-> PiZero_ArmV6, log |-> <<"info">>]
                  ELSE [kind |-> "BSECLibraryError", why |-> "unknown", variant |-> "", log |-> <<"error">>]
             ELSE IF Contains(<<"a", "r", "m", "v", "8">>, h.machine)
                  THEN [kind |-> "ok", why |-> "machine", variant |-> PiThree_ArmV8, log |-> <<"info">>]
                  ELSE [kind |-> "ok", why |-> "machine", variant |-> PiZero_ArmV6, log |-> <<"info">>]

(***************************************************************************)
(* _get_exec, _get_config, _get_state. Each returns                        *)
(*   [outcome, disk, log, compiles, copies, copySrc, created, archCalled,  *)
(*    archWhy, hit]                                                        *)
(* outcome "ok" or the exception raised; disk the files afterwards;        *)
(* archWhy the step of arch() that decided, "none" when it was not called. *)
(***************************************************************************)
StageResult(outcome, d, log) ==
    [outcome |-> outcome, disk |-> d, log |-> log, compiles |-> 0, copies |-> 0,
     copySrc |-> "", created |-> FALSE, archCalled |-> FALSE, archWhy |-> "none",
     hit |-> FALSE]

\* The executable cc links for a library variant.
Built(variant) == "bin:" \o variant

\* Faulty variant of build_flag: the comparison never clears the flag.
build_flag_always(d) == TRUE

\* build_flag after the comparison of the executable with its .md5 file
build_flag(d) ==
    IF d.exec # Absent /\ d.sidecar.exists
    THEN LET source_hash == strip(<<md5(d.exec)>>)
             target_hash == strip(d.sidecar.text)
         IN  ~(target_hash = source_hash)
    ELSE TRUE

\* Faulty variant of WriteGlue: a missing glue source is not written.
WriteGlue_not(d) == d

\* The glue source after "See if we need to write the source file".
WriteGlue(d) == IF d.glue = Absent THEN [d EXCEPT !.glue = "bsec_library_c"] ELSE d

\* Faulty variant of WriteBuild: the MD5SUM is taken of the executable as it was
\* before the build.
WriteBuild_stale(d, variant) ==
    [d EXCEPT !.exec = Built(variant), !.sidecar = Sidecar(<<md5(d.exec)>>)]

\* The files after a successful build: the executable, then its MD5SUM.
WriteBuild(d, variant) ==
    LET d1 == [d EXCEPT !.exec = Built(variant)]
    IN  [d1 EXCEPT !.sidecar = Sidecar(<<md5(d1.exec)>>)]

\* Faulty variant of FailedBuild: the MD5SUM is written before the exit code of
\* the compiler is looked at.
FailedBuild_sidecar(d) == [d EXCEPT !.sidecar = Sidecar(<<md5(d.exec)>>)]

\* The files after cc exited non-zero: the raise comes before the MD5SUM.
FailedBuild(d) == d

\* ccOk: whether the compiler exits 0 (decided by the environment).
get_exec(d, h, ccOk) ==
    IF ~build_flag(d)
    THEN [StageResult("ok", d, <<"info">>) EXCEPT !.hit = TRUE]
    ELSE LET firstLog == <<"warning">>
             d1 == WriteGlue(d)
             glueLog == IF d.glue = Absent THEN <<"warning">> ELSE <<>>
             lib_arch == arch(h)
         IN  IF lib_arch.kind # "ok"
             THEN [StageResult(lib_arch.kind, d1, firstLog \o glueLog \o lib_arch.log)
                     EXCEPT !.archCalled = TRUE, !.archWhy = lib_arch.why]
             ELSE IF ~ccOk
             THEN [StageResult("BSECLibraryError", FailedBuild(d1),
                               firstLog \o glueLog \o lib_arch.log \o <<"error", "error">>)
                     EXCEPT !.archCalled = TRUE, !.archWhy = lib_arch.why, !.compiles = 1]
             ELSE [StageResult("ok", WriteBuild(d1, lib_arch.variant),
                               firstLog \o glueLog \o lib_arch.log \o <<"info">>)
                     EXCEPT !.archCalled = TRUE, !.archWhy = lib_arch.why, !.compiles = 1]

\* shutil.copy returns the destination it was given; config_dst is built from
\* an absolute, normalised base_dir, so os.path.abspath leaves it as it is.
CopyLanded == TRUE

\* Faulty variants of config_reusable: the file is never reused; any file of the
\* table is reused, whatever its identity.
config_reusable_never(d, config) == FALSE
config_reusable_any_known(d, config) ==
    d.config # Absent /\ md5(d.config) \in DOMAIN config_hash_table

\* hash in config_hash_table and config_hash_table[hash]['string'] == config
config_reusable(d, config) ==
    /\ d.config # Absent
    /\ md5(d.config) \in DOMAIN config_hash_table
    /\ config_hash_table[md5(d.config)] = config

\* shutil.copy raises when it cannot read its source: the vendor tree of
\* host h lacks config/<config>/bsec_iaq.config.
copy_raises(h) == ~h.vendorConfigs

get_config(d, h, config) ==
    IF config_reusable(d, config)
    THEN [StageResult("ok", d, <<"info">>) EXCEPT !.hit = TRUE]
    ELSE LET d1 == [d EXCEPT !.config = VendorBlob(config)]
         IN  IF copy_raises(h)
             THEN [StageResult("FileNotFoundError", d, <<>>)
                     EXCEPT !.copies = 1, !.copySrc = config]
             ELSE IF ~CopyLanded
             THEN [StageResult("BSECLibraryError", d1, <<"error">>)
                     EXCEPT !.copies = 1, !.copySrc = config]
             ELSE [StageResult("ok", d1, <<"info">>)
                     EXCEPT !.copies = 1, !.copySrc = config]

\* Faulty variant of get_state: no file is made.
get_state_skip(d) == StageResult("ok", d, <<"info">>)

\* Faulty variant of get_state: the file is opened 'wb', which truncates it.
get_state_truncate(d) ==
    [StageResult("ok", [d EXCEPT !.state = "empty"], <<"info">>)
        EXCEPT !.created = (d.state = Absent)]

\* open(state_dst, 'xb'): exclusive creation
get_state(d) ==
    IF d.state = Absent
    THEN [StageResult("ok", [d EXCEPT !.state = "empty"], <<"info">>) EXCEPT !.created = TRUE]
    ELSE StageResult("ok", d, <<"info">>)

(***************************************************************************)
(* The hosts, working directories and arguments the model draws from.      *)
(***************************************************************************)
armv6l == <<"a", "r", "m", "v", "6", "l">>
armv7l == <<"a", "r", "m", "v", "7", "l">>
armv8l == <<"a", "r", "m", "v", "8", "l">>
aarch64 == <<"a", "a", "r", "c", "h", "6", "4">>
x86_64 == <<"x", "8", "6", "_", "6", "4">>

NoRevision == [has |-> FALSE, digits |-> <<>>]
Revision(digits) == [has |-> TRUE, digits |-> digits]

\* Revision lines of /proc/cpuinfo: a02082 (3B, BCM2837), a01041 (2B,
\* BCM2836), 900092 (Zero, BCM2835), 0010 (B+, old style), 2a02082 and
\* 2a01041 (the same boards with the warranty bit), 2a03111 (4B, BCM2711).
Revisions ==
    {NoRevision,
     Revision(<<10, 0, 2, 0, 8, 2>>), Revision(<<10, 0, 1, 0, 4, 1>>),
     Revision(<<9, 0, 0, 0, 9, 2>>), Revision(<<0, 0, 1, 0>>),
     Revision(<<2, 10, 0, 2, 0, 8, 2>>), Revision(<<2, 10, 0, 1, 0, 4, 1>>),
     Revision(<<2, 10, 0, 3, 1, 1, 1>>)}

\* base: "cwd" (base_dir None, or the working directory itself), "other" (a
\* directory that is not the working directory), "invalid" (not a directory).
\* bsecInBase: base_dir lists a directory named BSEC_...; bsecInCwd: the
\* working directory holds a directory of that name. vendorConfigs: the
\* vendor tree holds the configuration files under config/.
Host(system, machine, revision, base, bsecInBase, bsecInCwd) ==
    [system |-> system, machine |-> machine, revision |-> revision,
     base |-> base, bsecInBase |-> bsecInBase, bsecInCwd |-> bsecInCwd,
     vendorConfigs |-> TRUE]

Platforms ==
    {Host("Linux", m, r, "cwd", TRUE, TRUE) : m \in {armv6l, armv7l, armv8l}, r \in Revisions}
    \cup {Host(s, m, NoRevision, "cwd", TRUE, TRUE) :
            s \in {"Linux", "Darwin"}, m \in {armv7l, aarch64, x86_64}}

\* A host on which the build goes through: the directories vary on it.
PlainHost(base, bsecInBase, bsecInCwd) ==
    Host("Linux", armv7l, NoRevision, base, bsecInBase, bsecInCwd)

\* The plain host with a vendor tree that lacks its configuration files.
BareVendorTree == [PlainHost("cwd", TRUE, TRUE) EXCEPT !.vendorConfigs = FALSE]

Directories ==
    {PlainHost("cwd", b, b) : b \in BOOLEAN}
    \cup {PlainHost("other", b, c) : b \in BOOLEAN, c \in BOOLEAN}
    \cup {PlainHost("invalid", FALSE, FALSE)}

Disk(exec, sidecar, glue, config, state) ==
    [exec |-> exec, sidecar |-> sidecar, glue |-> glue, config |-> config, state |-> state]

ExecFiles == {Absent, "old"}
SidecarFiles ==
    {NoSidecar, Sidecar(<<md5("old")>>), Sidecar(<<md5("old"), "\n">>), Sidecar(<<"stale">>)}
GlueFiles == {Absent, "custom"}
ConfigFiles ==
    {Absent, "custom", VendorBlob("generic_33v_3s_4d"), VendorBlob("generic_18v_300s_28d")}
StateFiles == {Absent, "saved"}

\* An empty directory, and one left by an earlier construction.
EmptyDisk == Disk(Absent, NoSidecar, Absent, Absent, Absent)
BuiltDisk(c, st) == Disk("old", Sidecar(<<md5("old")>>), "custom", c, st)

\* The starting points: every platform on an empty and on a built directory;
\* on the plain host every directory layout, every state of the build
\* artifacts, and every configuration and state file; the bare vendor tree
\* with and without a configuration in place.
Starts ==
    {<<h, d>> : h \in Platforms \cup Directories,
                d \in {EmptyDisk, BuiltDisk(Absent, Absent)}}
    \cup {<<BareVendorTree, d>> :
            d \in {EmptyDisk, BuiltDisk(VendorBlob("generic_33v_3s_4d"), "saved")}}
    \cup {<<PlainHost("cwd", TRUE, TRUE), Disk(e, s, g, Absent, Absent)>> :
            e \in ExecFiles, s \in SidecarFiles, g \in GlueFiles}
    \cup {<<PlainHost("cwd", TRUE, TRUE), BuiltDisk(c, st)>> :
            c \in ConfigFiles, st \in StateFiles}
    \cup {<<PlainHost("cwd", TRUE, TRUE), Disk(Absent, NoSidecar, Absent, c, st)>> :
            c \in ConfigFiles, st \in StateFiles}

Args(i2c_address, temp_offset, sample_rate, voltage, retain_state) ==
    [i2c_address |-> i2c_address, temp_offset |-> temp_offset,
     sample_rate |-> sample_rate, voltage |-> voltage, retain_state |-> retain_state]

ArgSets ==
    {Args(a, 0, 3, 33, 4) : a \in 117..120}
    \cup {Args(119, t, 3, 33, 4) : t \in {-110, -100, 100, 110}}
    \cup {Args(119, 0, r, v, d) : r \in {3, 300}, v \in {18, 33}, d \in {4, 28}}
    \cup {Args(119, 0, 5, 33, 4), Args(119, 0, 3, 50, 4), Args(119, 0, 3, 33, 10),
          Args(119, 0, 5, 50, 4), Args(119, 0, 5, 33, 10), Args(119, 0, 3, 50, 10),
          Args(119, 0, 5, 50, 10)}

\* The number of constructions in one behaviour.
MaxConstructs == 2

NoArgs == Args(0, 0, 0, 0, 0)

\* No object: construction has not happened, or it raised.
NoObject ==
    [constructed |-> FALSE, i2c_address |-> 0, temp_offset |-> 0, sample_rate |-> 0,
     voltage |-> 0, retain_state |-> 0, proc |-> None]

\* The object as __init__ leaves it: the five parameters, and proc None.
Object(a) ==
    [constructed |-> TRUE, i2c_address |-> a.i2c_address, temp_offset |-> a.temp_offset,
     sample_rate |-> a.sample_rate, voltage |-> a.voltage,
     retain_state |-> a.retain_state, proc |-> None]

(***************************************************************************)
(* BSECLibrary.__init__ as one step.                                       *)
(***************************************************************************)
\* src_dirs = [i for i in os.listdir(self.base_dir) if os.path.isdir(i) and
\* 'BSEC_' in i]: the names come from base_dir, os.path.isdir(i) resolves
\* each against the working directory.
src_dirs_found(h) == h.bsecInBase /\ h.bsecInCwd

Record(a, outcome, stage, ran, log, e, c, s) ==
    [call |-> "__init__", n |-> last.n + 1, args |-> a, pre |-> disk, outcome |-> outcome,
     stage |-> stage, ran |-> ran, log |-> log,
     compiles |-> e.compiles, archCalled |-> e.archCalled, archWhy |-> e.archWhy,
     execHit |-> e.hit,
     copies |-> c.copies, copySrc |-> c.copySrc, configHit |-> c.hit,
     created |-> s.created]

NotRun == StageResult("ok", disk, <<>>)

\* Faulty variant of StoppedAt: the state file is made before the outcome of
\* the stage is looked at.
StoppedAt_state_first(r) == get_state(r.disk).disk

\* The files when stage result r is an exception: __init__ ends there, with
\* what the stage left; the calls after it do not run.
StoppedAt(r) == r.disk

Construct(a, ccOk) ==
    LET invalid == InvalidParameter(a)
        e == get_exec(disk, host, ccOk)
        c == get_config(e.disk, host, config_string(a))
        s == get_state(c.disk)
    IN  /\ last.n < MaxConstructs
        /\ UNCHANGED <<host, children, gens, blocked>>
        /\ IF invalid # "none"
           THEN /\ last' = Record(a, "BSECLibraryError", "validate", {}, <<"error">>,
                                  NotRun, NotRun, NotRun)
                /\ self' = NoObject
                /\ disk' = disk
           ELSE IF host.base = "invalid"
           THEN \* the error is logged, nothing is raised; self.base_dir is unset
                /\ last' = Record(a, "AttributeError", "base_dir", {}, <<"error">>,
                                  NotRun, NotRun, NotRun)
                /\ self' = NoObject
                /\ disk' = disk
           ELSE IF ~src_dirs_found(host)
           THEN /\ last' = Record(a, "BSECLibraryError", "src_dir", {},
                                  <<"error", "error", "error", "error">>,
                                  NotRun, NotRun, NotRun)
                /\ self' = NoObject
                /\ disk' = disk
           ELSE IF e.outcome # "ok"
           THEN /\ last' = Record(a, e.outcome, "get_exec", {"get_exec"}, e.log,
                                  e, NotRun, NotRun)
                /\ self' = NoObject
                /\ disk' = StoppedAt(e)
           ELSE IF c.outcome # "ok"
           THEN /\ last' = Record(a, c.outcome, "get_config", {"get_exec", "get_config"},
                                  e.log \o c.log, e, c, NotRun)
                /\ self' = NoObject
                /\ disk' = StoppedAt(c)
           ELSE /\ last' = Record(a, "ok", "done", {"get_exec", "get_config", "get_state"},
                                  e.log \o c.log \o s.log, e, c, s)
                /\ self' = Object(a)
                /\ disk' = s.disk

InitBuild ==
    /\ \E st \in Starts : host = st[1] /\ disk = st[2]
    /\ self = NoObject
    /\ children = <<>>
    /\ gens = <<>>
    /\ blocked = 0
    /\ last = [call |-> "none", n |-> 0, args |-> NoArgs, pre |-> disk, outcome |-> "ok",
               stage |-> "none", ran |-> {}, log |-> <<>>,
               compiles |-> 0, archCalled |-> FALSE, archWhy |-> "none", execHit |-> FALSE,
               copies |-> 0, copySrc |-> "", configHit |-> FALSE, created |-> FALSE]

NextBuild ==
    \E a \in ArgSets :
        \E ccOk \in (IF InvalidParameter(a) = "none" THEN BOOLEAN ELSE {TRUE}) :
            Construct(a, ccOk)

SpecBuild == InitBuild /\ [][NextBuild]_vars

(***************************************************************************)
(* The session: open(), close(), output(), and the children.               *)
(*                                                                         *)
(* A child is [argv, alive, returncode, signals, written, pipe]: signals   *)
(* counts the send_signal(15) calls on it, written is every line it has    *)
(* printed, pipe the lines not read yet; the write                         *)
(* end of the pipe is open as long as the child is alive. A line is       *)
(* [n, Status]: n, its place in the child's output, stands for the         *)
(* timestamp and the readings that tell one record from another; Status is *)
(* the value of the "Status" field, or "Error" for the text main() prints  *)
(* when it rejects its arguments (not JSON).                               *)
(* A generator is [state, child, yielded, reads, raised, log]: state "new"  *)
(* before its first item is asked for, "bound" while it iterates over the  *)
(* readline of one child's stdout, "done" after it returned or raised;     *)
(* yielded the records it gave, reads the lines it took, log what it       *)
(* logged.                                                                 *)
(***************************************************************************)
MaxSpawns == 2
MaxLines == 2
MaxGens == 2

Statuses == {"0", "1"}

\* The n-th line a child prints.
Line(n, status) == [n |-> n, Status |-> status]

\* run_command[1:] = [str(i2c_address), str(temp_offset), sample_rate_string]
run_command(obj) ==
    [i2c_address |-> obj.i2c_address, temp_offset |-> obj.temp_offset,
     sample_rate_mode |-> sample_rate_string(obj)]

\* main() of bsec-library.c accepts its three arguments
main_accepts(argv) ==
    /\ ~(argv.i2c_address < 118 \/ argv.i2c_address > 119)
    /\ ~(argv.temp_offset > 100 \/ argv.temp_offset < -100)
    /\ argv.sample_rate_mode \in {"LP", "ULP"}

\* subprocess.Popen(run_command, stdout=PIPE): returncode is None until the
\* process is polled or waited for, which this class never does.
Popen(argv) ==
    [argv |-> argv, alive |-> TRUE, returncode |-> "None", signals |-> 0,
     written |-> <<>>, pipe |-> <<>>]

NewGenerator == [state |-> "new", child |-> None, yielded |-> <<>>, reads |-> 0,
                 raised |-> "none", log |-> <<>>]

RECURSIVE SignalsSent(_)
\* The signals sent to the children 1..n, all together.
SignalsSent(n) == IF n = 0 THEN 0 ELSE SignalsSent(n - 1) + children[n].signals

\* startup: for an open() that launched a child, whether the child was
\* "running" or had "exited" when open() looked at it; "none" otherwise.
Call(call, spawned, signalled, gen, outcome, log) ==
    [call |-> call, startup |-> "none",
     lastOpenClose |-> IF call \in {"open", "close"} THEN call ELSE last.lastOpenClose,
     procBefore |-> self.proc, childrenBefore |-> Len(children),
     signalsBefore |-> SignalsSent(Len(children)),
     spawned |-> spawned, signalled |-> signalled, gen |-> gen,
     outcome |-> outcome, log |-> log]

\* next(g) was called: what came of it is in the generator (state, yielded,
\* raised, log), so that the record of the call stays small.
NextCalled == Call("next", 0, 0, 0, "generator", <<>>)

\* Faulty variants of already_running: open() that never sees a running child, and
\* open() that refuses to start again after a close().
already_running_never(obj) == FALSE
already_running_or_closed(obj) == obj.proc # None \/ last.lastOpenClose = "close"

\* Faulty variant of already_running: a child whose output has ended counts as
\* not running.
already_running_unless_ended(obj) ==
    /\ obj.proc # None
    /\ ~\E g \in 1..Len(gens) : gens[g].state = "done" /\ gens[g].child = obj.proc

\* if self.proc is not None        (open)
already_running(obj) == obj.proc # None

\* if self.proc.returncode is not None
startup_failed(p) == p.returncode # "None"

\* The child once main() has returned: with arguments it rejects it has
\* printed the error text, otherwise it ended without a line (the sensor did
\* not initialise).
Exited(p) ==
    IF main_accepts(p.argv)
    THEN [p EXCEPT !.alive = FALSE]
    ELSE [p EXCEPT !.alive = FALSE, !.written = Append(@, Line(Len(p.written) + 1, "Error")),
                   !.pipe = Append(@, Line(Len(p.written) + 1, "Error"))]

\* The timezone read from /etc/timezone and put into TZ has no part in the
\* state; the executable is there since __init__, so Popen starts it.
\* exited: whether the child has ended by the time open() reads returncode.
open(exited) ==
    /\ blocked = 0
    /\ UNCHANGED <<host, disk, gens, blocked>>
    /\ IF already_running(self)
       THEN /\ last' = Call("open", 0, 0, 0, "ok", <<"warning">>)
            /\ UNCHANGED <<self, children>>
       ELSE /\ Len(children) < MaxSpawns
            /\ children' = Append(children,
                    IF exited THEN Exited(Popen(run_command(self)))
                              ELSE Popen(run_command(self)))
            /\ self' = [self EXCEPT !.proc = Len(children) + 1]
            /\ LET startup == IF exited THEN "exited" ELSE "running"
               IN  IF startup_failed(children'[self'.proc])
                   THEN last' = [Call("open", self'.proc, 0, 0, "BSECLibraryError", <<"error">>)
                                    EXCEPT !.startup = startup]
                   ELSE last' = [Call("open", self'.proc, 0, 0, "ok", <<"info">>)
                                    EXCEPT !.startup = startup]

\* if self.proc is None            (close)
not_running(obj) == obj.proc = None

\* Faulty variant of proc_after_close: the handle is dropped only once the child is gone.
proc_after_close_if_exited(obj, child) == IF child.alive THEN obj.proc ELSE None

\* self.proc after close() has signalled the child and slept
proc_after_close(obj, child) == None

\* exited: whether the child ends within the second close() sleeps.
close(exited) ==
    /\ blocked = 0
    /\ UNCHANGED <<host, disk, gens, blocked>>
    /\ IF not_running(self)
       THEN /\ last' = Call("close", 0, 0, 0, "ok", <<"warning">>)
            /\ UNCHANGED <<self, children>>
       ELSE LET p == self.proc
                signalled == [children[p] EXCEPT !.signals = @ + 1]
            IN  /\ children' = [children EXCEPT ![p] =
                       IF exited THEN [signalled EXCEPT !.alive = FALSE] ELSE signalled]
                /\ self' = [self EXCEPT !.proc = proc_after_close(self, children'[p])]
                /\ last' = Call("close", 0, p, 0, "ok", <<"info">>)

\* output(): the call only makes the generator; no line of the body runs.
\* A generator is nothing but a name until its first item is asked for, so
\* generators that wait unasked are interchangeable: one waits at a time.
output ==
    /\ blocked = 0
    /\ Len(gens) < MaxGens
    /\ \A g \in 1..Len(gens) : gens[g].state # "new"
    /\ gens' = Append(gens, NewGenerator)
    /\ last' = Call("output", 0, 0, Len(gens) + 1, "ok", <<>>)
    /\ UNCHANGED <<host, disk, self, children, blocked>>

\* data = dict(json.loads(line.decode('UTF-8')))
json_loads(line) ==
    IF line.Status = "Error" THEN [exc |-> "JSONDecodeError", data |-> line]
                             ELSE [exc |-> "none", data |-> line]

\* Faulty variant of bad_status: every record is passed on.
bad_status_never(data) == FALSE

\* if data['Status'] != '0'
bad_status(data) == data.Status # "0"

\* Faulty variant of readline_result: the newest line comes first.
readline_newest(pipe) == pipe[Len(pipe)]

\* What self.proc.stdout.readline() returns from a pipe that holds lines
readline_result(pipe) == Head(pipe)

\* Faulty variant of end_of_data: the end of the child's output is an error.
end_of_data_raises(gen, c) ==
    [gen EXCEPT !.state = "done", !.child = c, !.raised = "BSECLibraryError",
                !.log = Append(@, "error")]

\* readline() returned b'': the for loop ends, the generator logs
\* "ran out of data" and returns
end_of_data(gen, c) ==
    [gen EXCEPT !.state = "done", !.child = c, !.log = Append(@, "warning")]

\* Faulty variant of no_data: output() on a session without a process raises.
no_data_raises(gen) ==
    [gen EXCEPT !.state = "done", !.raised = "BSECLibraryError", !.log = Append(@, "error")]

\* self.proc is None: the generator logs "No data to parse" and returns
no_data(gen) == [gen EXCEPT !.state = "done", !.log = Append(@, "warning")]

\* One pass of the for loop of generator g over child c, once readline()
\* has something to return: a line, or b'' at end of file.
Iterate(g, c) ==
    LET ch == children[c]
    IN  IF ch.pipe # <<>>
        THEN LET line == readline_result(ch.pipe)
                 loaded == json_loads(line)
                 data == loaded.data
                 read == [gens[g] EXCEPT !.state = "bound", !.child = c, !.reads = @ + 1]
             IN  /\ children' = [children EXCEPT ![c].pipe = Tail(ch.pipe)]
                 /\ IF loaded.exc # "none"
                    THEN /\ gens' = [gens EXCEPT ![g] =
                                [read EXCEPT !.state = "done", !.raised = loaded.exc]]
                         /\ last' = NextCalled
                    ELSE IF bad_status(data)
                    THEN /\ gens' = [gens EXCEPT ![g] =
                                [read EXCEPT !.state = "done", !.raised = "BSECLibraryError",
                                             !.log = Append(@, "error")]]
                         /\ last' = NextCalled
                    ELSE /\ gens' = [gens EXCEPT ![g] =
                                [read EXCEPT !.yielded = Append(@, data)]]
                         /\ last' = NextCalled
        ELSE \* readline() returned b'': the loop ends, the generator returns
             /\ gens' = [gens EXCEPT ![g] = end_of_data(@, c)]
             /\ last' = NextCalled
             /\ UNCHANGED children

\* Faulty variant of Readable: a read that does not wait for the child.
Readable_at_once(c) == TRUE

\* readline() on the stdout of child c returns at once
Readable(c) == children[c].pipe # <<>> \/ ~children[c].alive

\* next(g): the consumer asks generator g for its next item.
next(g) ==
    /\ blocked = 0
    /\ UNCHANGED <<host, disk, self>>
    /\ IF gens[g].state = "done"
       THEN /\ last' = NextCalled
            /\ UNCHANGED <<gens, children, blocked>>
       ELSE IF gens[g].state = "new" /\ self.proc = None
       THEN /\ gens' = [gens EXCEPT ![g] = no_data(@)]
            /\ last' = NextCalled
            /\ UNCHANGED <<children, blocked>>
       ELSE LET c == IF gens[g].state = "new" THEN self.proc ELSE gens[g].child
            IN  IF Readable(c)
                THEN Iterate(g, c) /\ UNCHANGED blocked
                ELSE /\ blocked' = g
                     /\ gens' = [gens EXCEPT ![g] = [@ EXCEPT !.state = "bound", !.child = c]]
                     /\ last' = NextCalled
                     /\ UNCHANGED children

\* The pending readline() returns: the child printed a line or ended.
readline ==
    /\ blocked # 0
    /\ Readable(gens[blocked].child)
    /\ Iterate(blocked, gens[blocked].child)
    /\ blocked' = 0
    /\ UNCHANGED <<host, disk, self>>

RECURSIVE LinesWritten(_)
\* The lines the children 1..n have printed, all together.
LinesWritten(n) == IF n = 0 THEN 0 ELSE LinesWritten(n - 1) + Len(children[n].written)

\* output_ready(): a child whose arguments main() accepted prints a record.
ChildEmit(c, status) ==
    /\ children[c].alive
    /\ main_accepts(children[c].argv)
    /\ LinesWritten(Len(children)) < MaxLines
    /\ LET line == Line(Len(children[c].written) + 1, status)
       IN  children' = [children EXCEPT ![c].written = Append(@, line),
                                        ![c].pipe = Append(@, line)]
    /\ UNCHANGED <<host, disk, self, gens, blocked, last>>

\* main() rejects its arguments: it prints the error text and returns 1.
ChildReject(c) ==
    /\ children[c].alive
    /\ ~main_accepts(children[c].argv)
    /\ children' = [children EXCEPT ![c] = Exited(@)]
    /\ UNCHANGED <<host, disk, self, gens, blocked, last>>

\* The child ends (on its own, or on a signal); what it printed stays readable.
ChildExit(c) ==
    /\ children[c].alive
    /\ main_accepts(children[c].argv)
    /\ children' = [children EXCEPT ![c].alive = FALSE]
    /\ UNCHANGED <<host, disk, self, gens, blocked, last>>

\* The objects whose sessions the model follows: a legal one, and one that
\* __init__ accepts with an address main() rejects.
SessionArgs == {Args(119, 0, 3, 33, 4), Args(120, 0, 3, 33, 4)}

Init ==
    /\ host = PlainHost("cwd", TRUE, TRUE)
    /\ \E a \in SessionArgs :
          /\ InvalidParameter(a) = "none"
          /\ self = Object(a)
          /\ disk = Disk(Built(PiZero_ArmV6), Sidecar(<<md5(Built(PiZero_ArmV6))>>),
                         "bsec_library_c", VendorBlob(config_string(a)), "empty")
    /\ children = <<>>
    /\ gens = <<>>
    /\ blocked = 0
    /\ last = [call |-> "none", startup |-> "none", lastOpenClose |-> "none",
               procBefore |-> None, childrenBefore |-> 0, signalsBefore |-> 0,
               spawned |-> 0,
               signalled |-> 0, gen |-> 0, outcome |-> "ok", log |-> <<>>]

Next ==
    \/ \E exited \in BOOLEAN : open(exited)
    \/ \E exited \in BOOLEAN : close(exited)
    \/ output
    \/ \E g \in 1..Len(gens) : next(g)
    \/ readline
    \/ \E c \in 1..Len(children), status \in Statuses : ChildEmit(c, status)
    \/ \E c \in 1..Len(children) : ChildReject(c)
    \/ \E c \in 1..Len(children) : ChildExit(c)

Spec == Init /\ [][Next]_vars

\* The kernel completes a pending read once the pipe holds a line or its
\* write end is closed.
SpecLive == Spec /\ WF_vars(readline)

(***************************************************************************)
(* Properties of the session (specification Spec).                         *)
(***************************************************************************)
Min(a, b) == IF a <= b THEN a ELSE b

RECURSIVE LeadingZeros(_)
\* The number of lines with Status "0" a child's output starts with.
LeadingZeros(w) ==
    IF w = <<>> \/ Head(w).Status # "0" THEN 0 ELSE 1 + LeadingZeros(Tail(w))

\* Generator g is the only one that ever read from its child's pipe.
SoleReader(g) ==
    \A h \in 1..Len(gens) : h # g => gens[h].child # gens[g].child

\* The lines taken out of child c's pipe so far.
Consumed(c) == Len(children[c].written) - Len(children[c].pipe)

\* C1: output() on a Running session, the child printing k records with
\* Status "0" and then one with another Status: the generator yields the
\* first k records in order and no other; when it takes line k+1 it raises
\* BSECLibraryError without yielding that record, and it never reads or
\* yields anything after that.
C1_OutputStopsAtBadStatus ==
    \A g \in 1..Len(gens) :
        LET gen == gens[g]
        IN  (gen.child # None /\ SoleReader(g)) =>
            LET w == children[gen.child].written
                k == LeadingZeros(w)
                taken == Consumed(gen.child)
            IN  (k < Len(w) /\ w[k + 1].Status \in Statuses \ {"0"}) =>
                /\ taken <= k + 1
                /\ gen.yielded = SubSeq(w, 1, Min(k, taken))
                /\ taken = k + 1 =>
                      /\ gen.raised = "BSECLibraryError"
                      /\ gen.state = "done"
                      /\ gen.yielded = SubSeq(w, 1, k)
                /\ taken <= k => gen.raised = "none"

\* C1's case: one good record yielded, then the raise on the second line.
C1_Witness ==
    \E g \in 1..Len(gens) :
        /\ gens[g].child # None
        /\ SoleReader(g)
        /\ children[gens[g].child].written = <<Line(1, "0"), Line(2, "1")>>
        /\ gens[g].yielded = <<Line(1, "0")>>
        /\ gens[g].raised = "BSECLibraryError"

\* C2: open() on a Running session spawns nothing and leaves self.proc as it
\* was, it only logs a warning; and after every open() the session is
\* Running, so of any run of consecutive open() calls only the first (on a
\* session that was not Running) spawns a child, exactly one.
C2_OpenWhileRunning ==
    last.call = "open" =>
        /\ self.proc # None
        /\ last.procBefore # None =>
              /\ Len(children) = last.childrenBefore
              /\ self.proc = last.procBefore
              /\ last.outcome = "ok"
              /\ last.log = <<"warning">>
        /\ last.procBefore = None => Len(children) = last.childrenBefore + 1

C2_Witness ==
    /\ last.call = "open"
    /\ last.procBefore # None
    /\ Len(children) = 1
    /\ self.proc = 1

\* C3: close() on a session that is not Running sends no signal, raises
\* nothing and changes nothing; close() on a Running session sends the
\* child one signal, and the session is Stopped afterwards whether the child
\* has exited or not.
C3_Close ==
    last.call = "close" =>
        /\ last.outcome = "ok"
        /\ self.proc = None
        /\ Len(children) = last.childrenBefore
        /\ last.procBefore = None =>
              SignalsSent(Len(children)) = last.signalsBefore
        /\ last.procBefore # None =>
              /\ SignalsSent(Len(children)) = last.signalsBefore + 1
              /\ children[last.procBefore].signals = 1

\* C3's case: the session is Stopped while the signalled child is still alive.
C3_Witness ==
    /\ last.call = "close"
    /\ last.procBefore # None
    /\ children[last.procBefore].alive
    /\ children[last.procBefore].signals = 1
    /\ self.proc = None

\* C4: a new session has no process; the session is Running exactly when the
\* most recent of the open()/close() calls was open(); open() on a session
\* that is not Running starts a child that no earlier open() started.
C4_Lifecycle ==
    /\ last.lastOpenClose = "none" => (self.proc = None /\ children = <<>>)
    /\ (self.proc # None) <=> (last.lastOpenClose = "open")
    /\ (last.call = "open" /\ last.procBefore = None) =>
          /\ self.proc = last.childrenBefore + 1
          /\ Len(children) = last.childrenBefore + 1
          /\ children[self.proc].signals = 0

\* C4's case: the session was closed and opened again, on a second child.
C4_Witness ==
    /\ last.call = "open"
    /\ last.procBefore = None
    /\ self.proc = 2
    /\ children[1].signals = 1

(***************************************************************************)
(* Properties of construction (specification SpecBuild). last.pre is the   *)
(* working directory as the construction found it, disk as it left it.     *)
(***************************************************************************)
Constructed(stage) == last.call = "__init__" /\ stage \in last.ran

\* The digest a .md5 file stores: its text without the whitespace.
StoredHash(sidecar) == SelectSeq(sidecar.text, LAMBDA t : ~IsSpace(t))

\* The executable and its sidecar exist and the stored hash is the hash of
\* the executable's bytes.
CacheValid(d) ==
    /\ d.exec # Absent
    /\ d.sidecar.exists
    /\ StoredHash(d.sidecar) = <<md5(d.exec)>>

\* C5: a construction that finds the executable and its sidecar with the
\* stored hash equal to the executable's hash invokes the compiler zero times
\* and leaves the executable, the sidecar and the glue source as they were.
C5_CacheHit ==
    (Constructed("get_exec") /\ CacheValid(last.pre)) =>
        /\ last.compiles = 0
        /\ disk.exec = last.pre.exec
        /\ disk.sidecar = last.pre.sidecar
        /\ disk.glue = last.pre.glue

\* C5's case: a hit on a directory without the glue source.
C5_Witness ==
    /\ Constructed("get_exec")
    /\ CacheValid(last.pre)
    /\ last.pre.glue = Absent
    /\ last.compiles = 0

\* The compile of the last construction ran and exited 0.
BuildSucceeded == Constructed("get_exec") /\ last.compiles = 1 /\ last.stage # "get_exec"

\* C6 as claimed: on a miss (executable missing, sidecar missing, or stored
\* hash different) exactly one compiler invocation occurs and, when it
\* succeeds, the sidecar holds the hash of the executable just built.
C6_MissCompilesOnce ==
    (Constructed("get_exec") /\ ~CacheValid(last.pre)) =>
        /\ last.compiles = 1
        /\ BuildSucceeded => disk.sidecar = Sidecar(<<md5(disk.exec)>>)

\* C6 as amended: on a miss the architecture is resolved first; exactly one
\* compiler invocation occurs when the resolver returns a variant and none
\* when it raises; when the compile succeeds the executable is the one just
\* built for that variant and the sidecar holds its hash.
C6_MissCompilesOnceIfArch ==
    (Constructed("get_exec") /\ ~CacheValid(last.pre)) =>
        /\ last.archCalled
        /\ last.compiles = (IF arch(host).kind = "ok" THEN 1 ELSE 0)
        /\ BuildSucceeded =>
              /\ disk.exec = Built(arch(host).variant)
              /\ disk.sidecar = Sidecar(<<md5(disk.exec)>>)

\* C6's case: a stale sidecar beside an old executable, rebuilt.
C6_Witness ==
    /\ Constructed("get_exec")
    /\ last.pre.exec = "old"
    /\ last.pre.sidecar = Sidecar(<<"stale">>)
    /\ BuildSucceeded
    /\ disk.exec # "old"

\* The destination's hash is in the table and its identity is the one asked for.
ConfigValid(d, a) ==
    /\ d.config # Absent
    /\ \E c \in KnownIdents :
          /\ md5(d.config) = HashOfVendorBlob(c)
          /\ c = config_string(a)

\* C7: when the destination's hash is one of the eight entries and the
\* entry's identity is the requested config_string, no copy occurs and the
\* destination is left as it was.
C7_ConfigReuse ==
    (Constructed("get_config") /\ ConfigValid(last.pre, last.args)) =>
        /\ last.copies = 0
        /\ last.copySrc = ""
        /\ disk.config = last.pre.config

C7_Witness ==
    /\ Constructed("get_config")
    /\ ConfigValid(last.pre, last.args)
    /\ last.copies = 0
    /\ last.args.voltage = 18

\* C8: in every other case (destination missing, hash not in the table, or
\* another identity) exactly one copy occurs, from the vendor variant of
\* config_string onto the destination; an unrecognised file is overwritten
\* (the destination holds the vendor file whenever the copy did not raise).
C8_ConfigOverwrite ==
    (Constructed("get_config") /\ ~ConfigValid(last.pre, last.args)) =>
        /\ last.copies = 1
        /\ last.copySrc = config_string(last.args)
        /\ last.stage # "get_config" =>
              disk.config = VendorBlob(config_string(last.args))

\* C8's case: a file the table does not know is overwritten.
C8_Witness ==
    /\ Constructed("get_config")
    /\ last.pre.config = "custom"
    /\ last.copies = 1
    /\ disk.config = VendorBlob(config_string(last.args))

\* C9: a construction that reaches the state store creates one empty state
\* file when there is none, and no construction, however many there are,
\* changes the bytes of a state file that exists.
C9_StateStore ==
    last.call = "__init__" =>
        /\ last.pre.state # Absent => (disk.state = last.pre.state /\ ~last.created)
        /\ (Constructed("get_state") /\ last.pre.state = Absent) =>
              (disk.state = "empty" /\ last.created)
        /\ (~Constructed("get_state")) => disk.state = last.pre.state

\* C9's case: a second construction over a state file with content.
C9_Witness ==
    /\ Constructed("get_state")
    /\ last.n = 2
    /\ last.pre.state = "saved"
    /\ disk.state = "saved"

\* C10 as claimed: a construction with an i2c_address other than 118 and 119
\* fails with BSECLibraryError in the parameter checks.
C10_AddressRejected ==
    (last.call = "__init__" /\ last.args.i2c_address \notin {118, 119}) =>
        (last.outcome = "BSECLibraryError" /\ last.stage = "validate")

\* The address and the offset of the last construction are legal.
LegalAddressAndOffset ==
    /\ last.args.i2c_address \in {118, 119}
    /\ last.args.temp_offset >= -100
    /\ last.args.temp_offset <= 100

\* sample_rate, voltage and retain_state of the last construction are legal.
LegalRateVoltageRetain ==
    /\ last.args.sample_rate \in {3, 300}
    /\ last.args.voltage \in {18, 33}
    /\ last.args.retain_state \in {4, 28}

\* The last construction raised BSECLibraryError in the parameter checks.
RejectedParameter == last.outcome = "BSECLibraryError" /\ last.stage = "validate"

\* C11 as claimed: with the other parameters legal, a construction is
\* rejected in the parameter checks exactly when temp_offset is above 10.0 or
\* below -10.0.
C11_OffsetRange ==
    (last.call = "__init__" /\ last.args.i2c_address \in {118, 119}
        /\ LegalRateVoltageRetain) =>
        (RejectedParameter <=>
            (last.args.temp_offset > 100 \/ last.args.temp_offset < -100))

\* C12: with a legal address and offset, a construction is rejected in the
\* parameter checks exactly when sample_rate is not 3 or 300, or voltage not
\* 1.8 or 3.3, or retain_state not 4 or 28; every legal combination passes.
C12_RateVoltageRetain ==
    (last.call = "__init__" /\ LegalAddressAndOffset) =>
        (RejectedParameter <=> ~LegalRateVoltageRetain)

\* C12's case: the legal combination (300, 1.8, 28) got past the checks.
C12_Witness ==
    /\ last.call = "__init__"
    /\ LegalAddressAndOffset
    /\ last.args.sample_rate = 300
    /\ last.args.voltage = 18
    /\ last.args.retain_state = 28
    /\ ~RejectedParameter

\* The identity the specification gives for voltage (tenths), rate, retention.
ExpectedIdent(voltage, sample_rate, retain_state) ==
    CASE <<voltage, sample_rate, retain_state>> = <<18, 3, 4>> -> "generic_18v_3s_4d"
      [] <<voltage, sample_rate, retain_state>> = <<18, 3, 28>> -> "generic_18v_3s_28d"
      [] <<voltage, sample_rate, retain_state>> = <<18, 300, 4>> -> "generic_18v_300s_4d"
      [] <<voltage, sample_rate, retain_state>> = <<18, 300, 28>> -> "generic_18v_300s_28d"
      [] <<voltage, sample_rate, retain_state>> = <<33, 3, 4>> -> "generic_33v_3s_4d"
      [] <<voltage, sample_rate, retain_state>> = <<33, 3, 28>> -> "generic_33v_3s_28d"
      [] <<voltage, sample_rate, retain_state>> = <<33, 300, 4>> -> "generic_33v_300s_4d"
      [] <<voltage, sample_rate, retain_state>> = <<33, 300, 28>> -> "generic_33v_300s_28d"

\* C13: the config_string of every constructed object, whatever its address
\* and offset, is generic_<18|33>v_<3|300>s_<4|28>d for its voltage, sample
\* rate and retention; it is the string __init__ hands to the config stage;
\* and two objects with the same string have the same three values.
C13_ConfigString ==
    /\ self.constructed =>
          /\ config_string(self) =
                ExpectedIdent(self.voltage, self.sample_rate, self.retain_state)
          /\ \A a \in ArgSets :
                (InvalidParameter(a) = "none" /\ config_string(a) = config_string(self)) =>
                    /\ a.voltage = self.voltage
                    /\ a.sample_rate = self.sample_rate
                    /\ a.retain_state = self.retain_state
    /\ (Constructed("get_config") /\ last.copies = 1) =>
          last.copySrc =
              ExpectedIdent(last.args.voltage, last.args.sample_rate, last.args.retain_state)

\* C13's case: an object on address 0x76 built over the configuration of an
\* earlier (3.3, 300, 28) object on address 0x77.
C13_Witness ==
    /\ self.constructed
    /\ self.i2c_address = 118
    /\ config_string(self) = "generic_33v_3s_4d"
    /\ last.pre.config = VendorBlob("generic_33v_300s_28d")
    /\ last.copySrc = "generic_33v_3s_4d"

\* C14 as claimed: an open() whose child had already exited when open()
\* looked at it raises BSECLibraryError after an error log, and does not
\* report the start.
C14_StartupCheck ==
    (last.call = "open" /\ last.startup = "exited") =>
        (last.outcome = "BSECLibraryError" /\ last.log = <<"error">>)

\* C15 as claimed: what a generator has yielded is at all times a prefix of
\* the lines its child wrote.
C15_Prefix ==
    \A g \in 1..Len(gens) :
        gens[g].child # None =>
            gens[g].yielded = SubSeq(children[gens[g].child].written, 1, Len(gens[g].yielded))

\* C15: every record a generator yielded is a line its child wrote, the
\* records come in the order the child wrote them and none comes twice, from
\* one generator or from two; and what the only generator of a child yielded
\* is a prefix of the lines the child wrote.
C15_InOrder ==
    \A g \in 1..Len(gens) :
        gens[g].child # None =>
            LET w == children[gens[g].child].written
                y == gens[g].yielded
            IN  /\ \A i \in 1..Len(y) : y[i].n \in 1..Len(w) /\ y[i] = w[y[i].n]
                /\ \A i, j \in 1..Len(y) : i < j => y[i].n < y[j].n
                /\ \A h \in 1..Len(gens) :
                      (h # g /\ gens[h].child = gens[g].child) =>
                          \A i \in 1..Len(y), j \in 1..Len(gens[h].yielded) :
                              y[i] # gens[h].yielded[j]
                /\ SoleReader(g) => y = SubSeq(w, 1, Len(y))

\* C15's case: the only generator of a child has yielded both its records.
C15_Witness ==
    \E g \in 1..Len(gens) :
        /\ gens[g].child # None
        /\ SoleReader(g)
        /\ gens[g].yielded = <<Line(1, "0"), Line(2, "0")>>
        /\ children[gens[g].child].written = gens[g].yielded

\* C16: a generator that finds no process when its first item is asked for
\* ends at once: it has yielded nothing, read nothing, raised nothing and
\* logged one warning; a generator without a child is new or ended; and
\* neither output() nor a request for an item starts a process or changes
\* self.proc.
C16_OutputNotRunning ==
    /\ \A g \in 1..Len(gens) :
          gens[g].child = None =>
              /\ gens[g].state \in {"new", "done"}
              /\ gens[g].yielded = <<>>
              /\ gens[g].reads = 0
              /\ gens[g].raised = "none"
              /\ gens[g].state = "done" => gens[g].log = <<"warning">>
    /\ last.call \in {"output", "next"} =>
          /\ Len(children) = last.childrenBefore
          /\ self.proc = last.procBefore
          /\ last.spawned = 0

\* C16's case: a closed session whose child left a record unread; the
\* generator asked afterwards gave nothing.
C16_Witness ==
    /\ self.proc = None
    /\ Len(children) = 1
    /\ children[1].pipe # <<>>
    /\ last.call = "next"
    /\ \E g \in 1..Len(gens) :
          gens[g].state = "done" /\ gens[g].child = None /\ gens[g].log = <<"warning">>

\* Every line of w is a record with Status "0".
AllStatusZero(w) == \A i \in 1..Len(w) : w[i].Status = "0"

\* C17: the only generator of a child ends without an error only at the end
\* of the child's output, having yielded every line and logged one warning;
\* once the child has ended and its lines, all of Status "0", are read, an
\* ended generator has raised nothing; and a request for an item starts no
\* process and leaves self.proc alone.
C17_EndOfStream ==
    /\ \A g \in 1..Len(gens) :
          (gens[g].child # None /\ SoleReader(g) /\ gens[g].state = "done") =>
              LET ch == children[gens[g].child]
              IN  /\ gens[g].raised = "none" =>
                        /\ ~ch.alive
                        /\ ch.pipe = <<>>
                        /\ gens[g].yielded = ch.written
                        /\ gens[g].log = <<"warning">>
                  /\ (~ch.alive /\ ch.pipe = <<>> /\ AllStatusZero(ch.written)) =>
                        gens[g].raised = "none"
    /\ last.call = "next" =>
          (Len(children) = last.childrenBefore /\ self.proc = last.procBefore)

\* C17's case: the child ended after two records; the generator yielded both
\* and ended; the session still holds the ended child and no other exists.
C17_Witness ==
    \E g \in 1..Len(gens) :
        /\ gens[g].child # None
        /\ SoleReader(g)
        /\ gens[g].state = "done"
        /\ gens[g].raised = "none"
        /\ gens[g].yielded = <<Line(1, "0"), Line(2, "0")>>
        /\ ~children[gens[g].child].alive
        /\ self.proc = gens[g].child
        /\ Len(children) = 1
        /\ last.call = "next"

\* The last construction met one of the conditions the constructor treats
\* as fatal: a parameter its checks refuse, no vendor source tree, a host
\* that is not Linux on ARM, a compiler that failed, a configuration copy
\* that failed.
FatalCondition ==
    /\ last.call = "__init__"
    /\ \/ InvalidParameter(last.args) # "none"
       \/ last.stage = "src_dir"
       \/ last.archWhy \in {"os", "cpu"}
       \/ (last.compiles = 1 /\ last.stage = "get_exec")
       \/ (last.copies = 1 /\ last.stage = "get_config")

\* C18 as claimed: a construction that meets a fatal condition raises
\* BSECLibraryError and no other error, and the last entry logged before the
\* raise is an error.
C18_FatalErrors ==
    FatalCondition =>
        /\ last.outcome = "BSECLibraryError"
        /\ last.log # <<>>
        /\ last.log[Len(last.log)] = "error"

\* C19 as claimed: a successful build on a host whose revision code decodes
\* to a chip family links that family's variant: BCM2837 the 64-bit ARMv8
\* one, BCM2835 the 32-bit ARMv6 one, BCM2836 a third, 32-bit ARMv7, one.
C19_FamilyVariant ==
    (last.call = "__init__" /\ last.archWhy = "revision" /\ last.compiles = 1
        /\ last.stage # "get_exec") =>
        LET family == rpi_processor(host).processor
        IN  /\ family = "BCM2837" => disk.exec = Built(PiThree_ArmV8)
            /\ family = "BCM2835" => disk.exec = Built(PiZero_ArmV6)
            /\ family = "BCM2836" =>
                  disk.exec \notin {Built(PiThree_ArmV8), Built(PiZero_ArmV6)}

\* The machine names of ARM processors, 32-bit and 64-bit.
IsArmCpu(machine) == machine \in {armv6l, armv7l, armv8l, aarch64}

\* C20 as claimed: when the architecture is resolved, a host that is not
\* Linux is rejected for its system, a Linux host without an ARM processor
\* for its processor, and a Linux host with an ARM processor, 32-bit or
\* 64-bit, is rejected for neither.
C20_HostRejection ==
    (last.call = "__init__" /\ last.archCalled) =>
        /\ host.system # "Linux" =>
              (last.outcome = "BSECLibraryError" /\ last.archWhy = "os")
        /\ (host.system = "Linux" /\ ~IsArmCpu(host.machine)) =>
              (last.outcome = "BSECLibraryError" /\ last.archWhy = "cpu")
        /\ (host.system = "Linux" /\ IsArmCpu(host.machine)) =>
              last.archWhy \notin {"os", "cpu"}

\* The machine name starts with "armv8".
StartsWithArmv8(machine) ==
    Len(machine) >= 5 /\ SubSeq(machine, 1, 5) = <<"a", "r", "m", "v", "8">>

\* C21 as claimed: on a Linux host with an ARM machine name and no revision
\* code, or one that names no known chip family, the resolver decides by the
\* machine name, the 64-bit variant for "armv8..." and the 32-bit one for
\* the rest; and the resolver ends with a variant or with BSECLibraryError.
C21_Fallback ==
    (last.call = "__init__" /\ last.archCalled) =>
        /\ (last.stage = "get_exec" /\ last.compiles = 0) =>
              last.outcome = "BSECLibraryError"
        /\ (last.archWhy \notin {"os", "cpu"}
                /\ rpi_processor(host).processor = "None") =>
              /\ last.archWhy = "machine"
              /\ (last.compiles = 1 /\ last.stage # "get_exec") =>
                    disk.exec = Built(IF StartsWithArmv8(host.machine)
                                      THEN PiThree_ArmV8 ELSE PiZero_ArmV6)

\* Child c is alive, has its pipe open and nothing unread in it.
Silent(c) == children[c].alive /\ children[c].pipe = <<>>

\* The child generator g reads, or would read at its first request.
Source(g) == IF gens[g].state = "new" THEN self.proc ELSE gens[g].child

\* No step lets a generator whose child is silent yield, raise or end, and
\* while the consumer waits on a silent child it completes no call.
C22_NoProgressWhileSilent ==
    /\ \A g \in 1..Len(gens) :
          (gens[g].state # "done" /\ Source(g) # None /\ Silent(Source(g))) =>
              /\ gens'[g].yielded = gens[g].yielded
              /\ gens'[g].raised = gens[g].raised
              /\ gens'[g].reads = gens[g].reads
              /\ gens'[g].state # "done"
    /\ (blocked # 0 /\ Silent(gens[blocked].child)) =>
          (blocked' = blocked /\ last' = last /\ self' = self)

\* The consumer waits in a read on a child that has a line for it or has
\* closed its pipe.
ReadPending == blocked # 0 /\ ~Silent(gens[blocked].child)

\* C22: a read of the output stream completes only when the child has
\* printed a line or closed its pipe: while the child is alive and silent
\* the generator yields nothing, raises nothing and does not end, and the
\* consumer stays in the read; once the child prints a line or closes the
\* pipe, the pending read completes.
C22_BlockingRead ==
    /\ [][C22_NoProgressWhileSilent]_vars
    /\ ReadPending ~> (blocked = 0)

\* C22's case: the consumer waits in a read on a silent child.
C22_Witness ==
    /\ blocked # 0
    /\ Silent(gens[blocked].child)
    /\ gens[blocked].yielded = <<Line(1, "0")>>

\* C23: the stages of a construction run in the order validation, source
\* tree, executable, configuration, state, and one that fails ends the
\* construction: a refused parameter or a missing source tree leaves every
\* file as it was, with no compiler run, no copy and no state file made; a
\* failed build leaves the configuration and the state file as they were;
\* a failed configuration leaves the state file as it was.
C23_StageOrder ==
    last.call = "__init__" =>
        /\ last.ran \in {{}, {"get_exec"}, {"get_exec", "get_config"},
                         {"get_exec", "get_config", "get_state"}}
        /\ InvalidParameter(last.args) # "none" => last.stage = "validate"
        /\ (InvalidParameter(last.args) = "none" /\ host.base # "invalid"
                /\ ~src_dirs_found(host)) => last.stage = "src_dir"
        /\ last.stage \in {"validate", "base_dir", "src_dir"} =>
              /\ last.ran = {}
              /\ last.compiles = 0 /\ ~last.archCalled
              /\ last.copies = 0
              /\ ~last.created
              /\ disk = last.pre
        /\ last.stage = "get_exec" =>
              /\ last.outcome # "ok"
              /\ last.copies = 0
              /\ ~last.created
              /\ disk.config = last.pre.config
              /\ disk.state = last.pre.state
        /\ last.stage = "get_config" =>
              /\ last.outcome # "ok"
              /\ ~last.created
              /\ disk.state = last.pre.state

\* C23's case: the copy of the configuration failed after a build, and no
\* state file was made.
C23_Witness ==
    /\ last.call = "__init__"
    /\ last.stage = "get_config"
    /\ last.compiles = 1
    /\ last.copies = 1
    /\ last.pre.state = Absent
    /\ disk.state = Absent

\* C24: a compiler that exits non-zero ends the construction with
\* BSECLibraryError after two error entries (the message and the captured
\* output), and the MD5SUM file is as it was before; the MD5SUM file changes
\* only in a construction whose compile succeeded, and after a successful
\* compile it holds the hash of the executable on disk.
C24_CompileFailure ==
    Constructed("get_exec") =>
        /\ (last.compiles = 1 /\ last.stage = "get_exec") =>
              /\ last.outcome = "BSECLibraryError"
              /\ Len(last.log) >= 2
              /\ SubSeq(last.log, Len(last.log) - 1, Len(last.log)) = <<"error", "error">>
              /\ disk.sidecar = last.pre.sidecar
        /\ disk.sidecar # last.pre.sidecar =>
              (last.compiles = 1 /\ last.stage # "get_exec")
        /\ (last.compiles = 1 /\ last.stage # "get_exec") => CacheValid(disk)

\* C24's case: the compiler failed over a stale MD5SUM file, which stayed.
C24_Witness ==
    /\ Constructed("get_exec")
    /\ last.compiles = 1
    /\ last.outcome = "BSECLibraryError"
    /\ last.pre.sidecar = Sidecar(<<"stale">>)
    /\ disk.sidecar = Sidecar(<<"stale">>)

\* C25 as claimed: a construction that gets as far as the source tree lookup
\* fails there exactly when base_dir lists no directory named BSEC_...,
\* whether or not base_dir is the working directory.
C25_SourceTree ==
    (last.call = "__init__" /\ InvalidParameter(last.args) = "none"
        /\ host.base # "invalid") =>
        ((last.stage = "src_dir" /\ last.outcome = "BSECLibraryError")
            <=> ~host.bsecInBase)

\* C26 as claimed: no child of a constructed object prints the error text
\* of main()'s argument checks.
C26_ChildAcceptsArguments ==
    \A c \in 1..Len(children) :
        \A i \in 1..Len(children[c].written) : children[c].written[i].Status # "Error"

\* The children that are alive.
Alive == {c \in 1..Len(children) : children[c].alive}

\* C27 as claimed: at most one child of the session is alive.
C27_OneChildAlive == Cardinality(Alive) <= 1

\* Generator g has ended on the child the session holds.
EndedOn(g, c) == c # None /\ gens[g].state = "done" /\ gens[g].child = c

C29_AfterConstruction ==
    /\ (last.call = "__init__" /\ last.outcome = "ok") =>
          /\ last.stage = "done"
          /\ CacheValid(disk)
          /\ disk.config # Absent
          /\ disk.state # Absent
          /\ self.constructed
          /\ self.proc = None
    /\ (Constructed("get_exec") /\ CacheValid(last.pre)) =>
          (last.compiles = 0 /\ last.execHit)
    /\ self.constructed => (last.call = "__init__" /\ last.outcome = "ok")

\* C29's case: a second construction right after one that built the
\* executable in an empty directory.
C29_Witness ==
    /\ last.call = "__init__"
    /\ last.n = 2
    /\ last.outcome = "ok"
    /\ last.pre.exec = Built(PiZero_ArmV6)
    /\ last.pre.glue = "bsec_library_c"
    /\ last.pre.state = "empty"
    /\ last.compiles = 0

RECURSIVE ReadsFrom(_, _)
\* The lines the generators 1..n have taken from child c, all together.
ReadsFrom(c, n) ==
    IF n = 0 THEN 0
    ELSE ReadsFrom(c, n - 1) + (IF gens[n].child = c THEN gens[n].reads ELSE 0)

\* A generator has no child before its first item is asked for, and every
\* line taken out of a child's pipe was taken by a generator bound to that
\* child: no generator reads the pipe of a child other than its own.
BoundToOneChild ==
    /\ \A g \in 1..Len(gens) :
          gens[g].state = "new" => (gens[g].child = None /\ gens[g].reads = 0)
    /\ \A c \in 1..Len(children) : Consumed(c) = ReadsFrom(c, Len(gens))

\* A sequence bound to a child has ended by a non-zero status or at the end
\* of that child's output.
EndsAtStatusOrEnd ==
    \A g \in 1..Len(gens) :
        (gens[g].state = "done" /\ gens[g].child # None) =>
            \/ gens[g].raised = "BSECLibraryError"
            \/ /\ gens[g].raised = "none"
               /\ ~children[gens[g].child].alive
               /\ children[gens[g].child].pipe = <<>>

\* C30 as claimed: a sequence is bound at its first request to the child of
\* that moment, reads that child's pipe only, whatever close() and open() do
\* afterwards, and ends only at the end of that pipe or on a non-zero
\* status.
C30_BoundToFirstChild == BoundToOneChild /\ EndsAtStatusOrEnd

\* C31: a construction that reaches the build stage resolves the
\* architecture exactly when the executable and its MD5SUM file do not
\* agree; on a hit no host, whatever its system and processor, is refused;
\* on a miss a missing glue source is there afterwards, and one that was
\* there is as it was, also when the resolver refused the host.
C31_ArchIffBuild ==
    Constructed("get_exec") =>
        /\ last.archCalled <=> ~CacheValid(last.pre)
        /\ CacheValid(last.pre) =>
              /\ last.archWhy = "none"
              /\ last.execHit
              /\ last.stage # "get_exec"
              /\ disk.glue = last.pre.glue
        /\ ~CacheValid(last.pre) =>
              /\ last.archWhy # "none"
              /\ last.pre.glue = Absent => disk.glue = "bsec_library_c"
              /\ last.pre.glue # Absent => disk.glue = last.pre.glue

\* C31's case: a host that is not Linux was refused in an empty directory,
\* and the glue source written before that stayed.
C31_Witness ==
    /\ Constructed("get_exec")
    /\ host.system # "Linux"
    /\ last.outcome = "BSECLibraryError"
    /\ last.archWhy = "os"
    /\ last.pre.glue = Absent
    /\ disk.glue = "bsec_library_c"
    /\ disk.exec = Absent

====
